---- MODULE Spec2Model ----
(***************************************************************************)
(* The atom selection language of PQAnalysis: a selection text is parsed   *)
(* by the grammar PQAnalysis/grammar/selection.lark into a parse tree, the *)
(* tree is turned into a selection node, the node is evaluated against a   *)
(* topology, and the selected atom indices are returned in order.          *)
(*                                                                         *)
(* The grammar is modelled rule by rule from selection.lark.  The AST      *)
(* builder, the evaluator and the topology are not part of the available   *)
(* sources; they are modelled from the specification (sections 3, 4.3,     *)
(* 4.4, 4.5 and 6).                                                        *)
(***************************************************************************)
EXTENDS Integers, Sequences, FiniteSets, TLC

VARIABLES text, topo, pc, tree, node, res, out, err, pos

vars == <<text, topo, pc, tree, node, res, out, err, pos>>

(***************************************************************************)
(* Bounds of the model.                                                    *)
(***************************************************************************)
\* the largest atom count of a topology
MaxAtoms == 7
\* the largest integer literal of a selection text (the smallest is -1)
MaxInt == 6

(***************************************************************************)
(* Tokens.  An integer literal carries its value, every other token its    *)
(* text.  White space is ignored by the grammar (%ignore WS) and is not    *)
(* a token.                                                                *)
(***************************************************************************)
I(v) == [k |-> "int", s |-> "", v |-> v]
L(s) == [k |-> "lit", s |-> s, v |-> 0]

\* runs of letters the model writes in selection texts
LetterLits == {"H", "h", "C", "O", "Xx", "WAT", "wat", "MOL", "all", "ALL", "All"}
\* runs of letters and digits that are not runs of letters
MixedLits == {"C1"}

\* case folding of the names the model uses
Lower(s) ==
    CASE s = "H" -> "h"
      [] s = "C" -> "c"
      [] s = "O" -> "o"
      [] s = "Xx" -> "xx"
      [] s = "WAT" -> "wat"
      [] s = "MOL" -> "mol"
      [] s = "ALL" -> "all"
      [] s = "All" -> "all"
      [] s = "C1" -> "c1"
      [] s = "ATOM(" -> "atom("
      [] s = "Atom(" -> "atom("
      [] s = "ELEM(" -> "elem("
      [] s = "Elem(" -> "elem("
      [] s = "RES(" -> "res("
      [] s = "Res(" -> "res("
      [] s = "RES~" -> "res~"
      [] s = "Res~" -> "res~"
      [] OTHER -> s

\* the decimal numeral of a small natural number
Numeral(v) ==
    CASE v = 0 -> "0" [] v = 1 -> "1" [] v = 2 -> "2" [] v = 3 -> "3"
      [] v = 4 -> "4" [] v = 5 -> "5" [] v = 6 -> "6" [] v = 7 -> "7"
      [] v = 8 -> "8" [] v = 9 -> "9" [] OTHER -> "n"

(***************************************************************************)
(* Terminals and the inlined token rules (selection.lark, lines 42-52).    *)
(***************************************************************************)
\* integer taken from the unsigned terminal
integer_from_unsigned(tok) == tok.k = "int" /\ tok.v >= 0
\* ?integer.2: INT, with INT the imported SIGNED_INT
integer(tok) == tok.k = "int"
\* ?unsigned_integer: UNSIGNED_INT, the imported INT (no sign)
unsigned_integer(tok) == tok.k = "int" /\ tok.v >= 0
\* ?letters.2: LETTER+
letters(tok) == tok.k = "lit" /\ tok.s \in LetterLits
\* ?word.2: (LETTER|DIGIT)+
word(tok) ==
    \/ tok.k = "lit" /\ tok.s \in (LetterLits \cup MixedLits)
    \/ tok.k = "int" /\ tok.v >= 0
WordText(tok) == IF tok.k = "int" THEN Numeral(tok.v) ELSE tok.s
IsNewline(tok) == tok = L("NL")
\* a string literal of the grammar carrying the i flag matches in any case
MatchesNoCase(tok, kw) == tok.k = "lit" /\ Lower(tok.s) = kw
\* a string literal of the grammar without the i flag matches exactly
MatchesExact(tok, kw) == tok.k = "lit" /\ tok.s = kw

(***************************************************************************)
(* Rule priorities (the .N suffix of a rule name); a rule without a suffix *)
(* has none.                                                               *)
(***************************************************************************)
PrioAndStatement == 2
PrioWithoutStatement == 3
PrioIndex == 2
PrioIndices == 2
PrioAll == 3
PrioWord == 2
PrioLetters == 2
PrioInteger == 2
PrioNone == 0

(***************************************************************************)
(* Parse trees.  A tree node carries its rule, the text of its word        *)
(* token (s), the values of its integer tokens in order (v) and its        *)
(* subtrees (kids).  Anonymous tokens ("&", "(", "elem(", "-", ...) are    *)
(* filtered out of the tree, and a rule marked ? with a single child is    *)
(* replaced by that child.                                                 *)
(***************************************************************************)
Tree(rule, s, v, kids) == [rule |-> rule, s |-> s, v |-> v, kids |-> kids]

IntValues(ts) == [i \in 1..Len(ts) |-> ts[i].v]

AllUnsigned(ts) == \A i \in 1..Len(ts) : unsigned_integer(ts[i])

\* the argument (letters | unsigned_integer+) of elem(, res( and atom(
ArgTrees(rule, name, ts) ==
    IF Len(ts) = 1 /\ letters(ts[1])
    THEN {Tree(rule, name, <<>>, <<Tree("letters", ts[1].s, <<>>, <<>>)>>)}
    ELSE IF Len(ts) >= 1 /\ AllUnsigned(ts)
         THEN {Tree(rule, name, IntValues(ts), <<>>)}
         ELSE {}

\* index.2: integer
index(ts) ==
    IF Len(ts) = 1 /\ integer(ts[1])
    THEN {Tree("index", "", <<ts[1].v>>, <<>>)}
    ELSE {}

\* indices accepting only ".." between the first two integers
indices_dots_only(ts) ==
    IF /\ Len(ts) \in {3, 5}
       /\ integer(ts[1])
       /\ MatchesExact(ts[2], "..")
       /\ integer(ts[3])
       /\ (Len(ts) = 5 => MatchesExact(ts[4], "..") /\ integer(ts[5]))
    THEN {Tree("indices", "",
               IF Len(ts) = 3 THEN <<ts[1].v, ts[3].v>>
                              ELSE <<ts[1].v, ts[3].v, ts[5].v>>,
               <<>>)}
    ELSE {}

\* indices whose optional third integer is consumed but not kept
indices_third_dropped(ts) ==
    IF /\ Len(ts) \in {3, 5}
       /\ integer(ts[1])
       /\ (MatchesExact(ts[2], "-") \/ MatchesExact(ts[2], ".."))
       /\ integer(ts[3])
       /\ (Len(ts) = 5 => MatchesExact(ts[4], "..") /\ integer(ts[5]))
    THEN {Tree("indices", "", <<ts[1].v, ts[3].v>>, <<>>)}
    ELSE {}

\* indices.2: integer ("-"|"..") integer (".." integer)?
indices(ts) ==
    IF /\ Len(ts) \in {3, 5}
       /\ integer(ts[1])
       /\ (MatchesExact(ts[2], "-") \/ MatchesExact(ts[2], ".."))
       /\ integer(ts[3])
       /\ (Len(ts) = 5 => MatchesExact(ts[4], "..") /\ integer(ts[5]))
    THEN {Tree("indices", "",
               IF Len(ts) = 3 THEN <<ts[1].v, ts[3].v>>
                              ELSE <<ts[1].v, ts[3].v, ts[5].v>>,
               <<>>)}
    ELSE {}

\* atomtype: word
atomtype(ts) ==
    IF Len(ts) = 1 /\ word(ts[1])
    THEN {Tree("atomtype", WordText(ts[1]), <<>>, <<>>)}
    ELSE {}

\* the atom rule with an id list that may be empty
atom_ids_optional(ts) ==
    IF /\ Len(ts) >= 4
       /\ MatchesNoCase(ts[1], "atom(")
       /\ word(ts[2])
       /\ MatchesExact(ts[3], ",")
       /\ MatchesExact(ts[Len(ts)], ")")
    THEN IF Len(ts) = 4
         THEN {Tree("atom", WordText(ts[2]), <<>>, <<>>)}
         ELSE ArgTrees("atom", WordText(ts[2]), SubSeq(ts, 4, Len(ts) - 1))
    ELSE {}

\* atom: "atom("i word "," (letters | unsigned_integer+) ")"
atom(ts) ==
    IF /\ Len(ts) >= 5
       /\ MatchesNoCase(ts[1], "atom(")
       /\ word(ts[2])
       /\ MatchesExact(ts[3], ",")
       /\ MatchesExact(ts[Len(ts)], ")")
    THEN ArgTrees("atom", WordText(ts[2]), SubSeq(ts, 4, Len(ts) - 1))
    ELSE {}

\* element without its letters alternative
element_integers_only(ts) ==
    IF /\ Len(ts) >= 3
       /\ MatchesNoCase(ts[1], "elem(")
       /\ MatchesExact(ts[Len(ts)], ")")
       /\ AllUnsigned(SubSeq(ts, 2, Len(ts) - 1))
    THEN ArgTrees("element", "", SubSeq(ts, 2, Len(ts) - 1))
    ELSE {}

\* element: "elem("i (letters | unsigned_integer+) ")"
element(ts) ==
    IF /\ Len(ts) >= 3
       /\ MatchesNoCase(ts[1], "elem(")
       /\ MatchesExact(ts[Len(ts)], ")")
    THEN ArgTrees("element", "", SubSeq(ts, 2, Len(ts) - 1))
    ELSE {}

\* residue: "res("i (letters | unsigned_integer+) ")"
residue(ts) ==
    IF /\ Len(ts) >= 3
       /\ MatchesNoCase(ts[1], "res(")
       /\ MatchesExact(ts[Len(ts)], ")")
    THEN ArgTrees("residue", "", SubSeq(ts, 2, Len(ts) - 1))
    ELSE {}

\* the "res~" rule giving the tree of its index or indices
residue_number_as_index(ts) ==
    IF Len(ts) >= 2 /\ MatchesNoCase(ts[1], "res~")
    THEN index(Tail(ts)) \cup indices(Tail(ts))
    ELSE {}

\* residue_number: "res~"i (index | indices)
residue_number(ts) ==
    IF Len(ts) >= 2 /\ MatchesNoCase(ts[1], "res~")
    THEN {Tree("residue_number", "", <<>>, <<t>>) :
             t \in index(Tail(ts)) \cup indices(Tail(ts))}
    ELSE {}

\* all.3: "all" | "*"
all(ts) ==
    IF Len(ts) = 1 /\ (MatchesExact(ts[1], "all") \/ MatchesExact(ts[1], "*"))
    THEN {Tree("all", "", <<>>, <<>>)}
    ELSE {}

\* the priority of a rule
RulePriority(rule) ==
    CASE rule = "and_statement" -> PrioAndStatement
      [] rule = "without_statement" -> PrioWithoutStatement
      [] rule = "index" -> PrioIndex
      [] rule = "indices" -> PrioIndices
      [] rule = "all" -> PrioAll
      [] rule = "word" -> PrioWord
      [] rule = "letters" -> PrioLetters
      [] rule = "integer" -> PrioInteger
      [] OTHER -> PrioNone

\* the priority a derivation of an atomic expression sums up: its rule's
\* and those of the inlined token rules it uses
AtomicPriority(t) ==
    CASE t.rule = "all" -> RulePriority("all")
      [] t.rule = "index" -> RulePriority("index") + RulePriority("integer")
      [] t.rule = "indices" ->
            RulePriority("indices") + Len(t.v) * RulePriority("integer")
      [] t.rule = "atomtype" -> RulePriority("atomtype") + RulePriority("word")
      [] OTHER -> RulePriority(t.rule)

\* ?atomic_expression: atomtype | atom | element | residue | residue_number
\*                   | index | indices | all
\* One token can derive from several alternatives (a digit run is a word and
\* an integer, "all" is a word and the all keyword): the alternative of the
\* highest priority is the one kept.
atomic_expression(ts) ==
    LET alts == atomtype(ts) \cup atom(ts) \cup element(ts) \cup residue(ts)
                \cup residue_number(ts) \cup index(ts) \cup indices(ts)
                \cup all(ts)
    IN {t \in alts : \A u \in alts : AtomicPriority(u) <= AtomicPriority(t)}

\* the token an operator rule separates its operands with
AndToken == "&"
WithoutToken == "|"
OrToken == ","

(***************************************************************************)
(* ?statement and the three operator rules.  Operands(op, ts) is the set   *)
(* of operand lists of  statement (op statement)+  deriving ts, and        *)
(* statement(ts) the set of trees deriving ts.  The grammar is ambiguous:  *)
(* a text mixing operators, or chaining one, has several trees.  The       *)
(* derivations that differ only by the unit cycle statement ->             *)
(* x_statement -> statement (zero repetitions, no token consumed) are      *)
(* taken once.                                                             *)
(***************************************************************************)
RECURSIVE statement(_), Operands(_, _)

\* the "," rule building the tree of the "|" rule
or_statement_as_without(ts) ==
    {Tree("without_statement", "", <<>>, k) : k \in Operands(OrToken, ts)}

\* the "&" rule building the tree of the "," rule
and_statement_as_or(ts) ==
    {Tree("or_statement", "", <<>>, k) : k \in Operands(AndToken, ts)}

\* the "|" rule building the tree of the "&" rule
without_statement_as_and(ts) ==
    {Tree("and_statement", "", <<>>, k) : k \in Operands(WithoutToken, ts)}

\* or_statement: statement ((",") statement)*
or_statement(ts) ==
    {Tree("or_statement", "", <<>>, k) : k \in Operands(OrToken, ts)}

\* ?and_statement.2: statement (("&") statement)*
and_statement(ts) ==
    {Tree("and_statement", "", <<>>, k) : k \in Operands(AndToken, ts)}

\* the "|" rule keeping only its first operand
without_statement_first_only(ts) ==
    {k[1] : k \in Operands(WithoutToken, ts)}

\* ?without_statement.3: statement (("|") statement)*
without_statement(ts) ==
    {Tree("without_statement", "", <<>>, k) : k \in Operands(WithoutToken, ts)}

Operands(op, ts) ==
    UNION { LET left == statement(SubSeq(ts, 1, p - 1))
                rest == SubSeq(ts, p + 1, Len(ts))
            IN IF left = {} THEN {}
               ELSE {<<t>> \o r : t \in left,
                                  r \in {<<u>> : u \in statement(rest)}
                                        \cup Operands(op, rest)}
          : p \in {q \in 2..(Len(ts) - 1) : MatchesExact(ts[q], op)} }

\* the statement rule without its parenthesised alternative
statement_unparenthesised(ts) ==
    IF Len(ts) = 0 THEN {}
    ELSE atomic_expression(ts)
         \cup and_statement(ts)
         \cup without_statement(ts)
         \cup or_statement(ts)

\* the statement rule with a parenthesised alternative that needs no ")"
statement_unclosed(ts) ==
    IF Len(ts) = 0 THEN {}
    ELSE atomic_expression(ts)
         \cup and_statement(ts)
         \cup without_statement(ts)
         \cup or_statement(ts)
         \cup (IF Len(ts) >= 2 /\ MatchesExact(ts[1], "(")
               THEN statement(SubSeq(ts, 2, Len(ts)))
                    \cup (IF Len(ts) >= 3 /\ MatchesExact(ts[Len(ts)], ")")
                          THEN statement(SubSeq(ts, 2, Len(ts) - 1))
                          ELSE {})
               ELSE {})

\* ?statement: atomic_expression | and_statement | without_statement
\*           | or_statement | ("(") statement (")")
statement(ts) ==
    IF Len(ts) = 0 THEN {}
    ELSE atomic_expression(ts)
         \cup and_statement(ts)
         \cup without_statement(ts)
         \cup or_statement(ts)
         \cup (IF /\ Len(ts) >= 3
                  /\ MatchesExact(ts[1], "(")
                  /\ MatchesExact(ts[Len(ts)], ")")
               THEN statement(SubSeq(ts, 2, Len(ts) - 1))
               ELSE {})

RECURSIVE StripNewlines(_)
StripNewlines(ts) ==
    IF Len(ts) > 0 /\ IsNewline(ts[Len(ts)])
    THEN StripNewlines(SubSeq(ts, 1, Len(ts) - 1))
    ELSE ts

\* start: expression        expression: statement NEWLINE*
expression(ts) ==
    {Tree("expression", "", <<>>, <<t>>) : t \in statement(StripNewlines(ts))}

(***************************************************************************)
(* Syntax errors.  A text the grammar does not derive is rejected at the   *)
(* first token that no derivation of the grammar can continue with, or at  *)
(* the end of the text when the text is the beginning of a derivable text; *)
(* the error carries that position (specification, section 7).             *)
(***************************************************************************)
\* the deepest nesting of open parentheses in the texts of the model
MaxDepth == 2

\* the tokens that complete an atomic expression cut short, followed by
\* the parentheses that close an open statement
Completions ==
    LET rest == {<<>>, <<L("H")>>, <<I(1)>>, <<L("H"), L(")")>>,
                 <<I(1), L(")")>>, <<L(","), I(1), L(")")>>,
                 <<L("C"), L(","), I(1), L(")")>>}
        close == {[i \in 1..k |-> L(")")] : k \in 0..MaxDepth}
    IN {r \o c : r \in rest, c \in close}

\* the tokens are the beginning of a text the grammar derives
ViablePrefix(ts) == \E c \in Completions : expression(ts \o c) # {}

\* the position (counted from 1) of the first token the grammar cannot
\* continue with; one past the last token when the text ends too early
ErrorPosition(ts) ==
    LET bad == {k \in 1..Len(ts) : ~ViablePrefix(SubSeq(ts, 1, k))}
    IN IF bad = {} THEN Len(ts) + 1
       ELSE CHOOSE k \in bad : \A j \in bad : k <= j

(***************************************************************************)
(* The topology (specification, section 6): atom_count, atom_name,         *)
(* atom_element, residue_of and residue_name.  The topology of n atoms is  *)
(* the first n atoms of the repeated pattern H H C C O, in residues of     *)
(* three atoms numbered from 1; with five atoms it is the scenario of      *)
(* section 8: residues {1: [0,1,2], 2: [3,4]} named MOL and WAT.           *)
(***************************************************************************)
ElementPattern == <<"H", "H", "C", "C", "O">>

Topology(n) ==
    [atom_count |-> n,
     atom_name |-> [i \in 0..(n - 1) |-> ElementPattern[(i % 5) + 1]],
     atom_element |-> [i \in 0..(n - 1) |-> ElementPattern[(i % 5) + 1]],
     residue_of |-> [i \in 0..(n - 1) |-> (i \div 3) + 1]]

residue_name(r) == IF r = 1 THEN "MOL" ELSE "WAT"

\* the ordinal of an element symbol
AtomicNumber(sym) ==
    CASE Lower(sym) = "h" -> 1
      [] Lower(sym) = "c" -> 6
      [] Lower(sym) = "o" -> 8
      [] OTHER -> 0

Topologies == {Topology(n) : n \in 0..MaxAtoms}

AtomsOf(T) == 0..(T.atom_count - 1)

(***************************************************************************)
(* Selection nodes (specification, section 3) and the AST builder          *)
(* (section 4.3).  A node carries its variant (kind), its case-folded name,*)
(* its integers and its children; IndexRange carries <<start, end, step>>. *)
(***************************************************************************)
SelectionNode(kind, name, ints, kids) ==
    [kind |-> kind, name |-> name, ints |-> ints, kids |-> kids]

\* indices read as (start, end, step): the third integer taken as the step
BuildIndicesThirdAsStep(v) ==
    IF Len(v) = 2
    THEN SelectionNode("IndexRange", "", <<v[1], v[2], 1>>, <<>>)
    ELSE SelectionNode("IndexRange", "", <<v[1], v[2], v[3]>>, <<>>)

\* indices: two integers are start and end with step 1; in the chained
\* form a..b..c the second integer is the step and the third the end
\* (section 4.4 and the design note of section 9)
BuildIndices(v) ==
    IF Len(v) = 2
    THEN SelectionNode("IndexRange", "", <<v[1], v[2], 1>>, <<>>)
    ELSE SelectionNode("IndexRange", "", <<v[1], v[3], v[2]>>, <<>>)

\* And and Without are binary: an operand list is folded from the left
RECURSIVE FoldLeft(_, _)
FoldLeft(kind, nodes) ==
    IF Len(nodes) = 1 THEN nodes[1]
    ELSE SelectionNode(kind, "", <<>>,
            <<FoldLeft(kind, SubSeq(nodes, 1, Len(nodes) - 1)), nodes[Len(nodes)]>>)

\* the argument of elem( and res( is a case-folded symbol or integers; the
\* argument of atom( is integers
BuildArg(kind, name, t) ==
    IF Len(t.kids) = 1
    THEN SelectionNode(kind, name, <<>>,
            <<SelectionNode("Letters", Lower(t.kids[1].s), <<>>, <<>>)>>)
    ELSE SelectionNode(kind, name, t.v, <<>>)

\* the literal shapes the builder validates: the ids of an Atom are
\* integers, at least one; a symbol in their place is a structural error
RECURSIVE Buildable(_)
Buildable(t) ==
    /\ t.rule = "atom" => Len(t.kids) = 0 /\ Len(t.v) >= 1
    /\ t.rule \in {"expression", "and_statement", "without_statement",
                   "or_statement"} =>
          \A i \in 1..Len(t.kids) : Buildable(t.kids[i])

RECURSIVE build(_)
build(t) ==
    CASE t.rule = "expression" -> build(t.kids[1])
      [] t.rule = "atomtype" -> SelectionNode("AtomType", Lower(t.s), <<>>, <<>>)
      [] t.rule = "atom" -> BuildArg("Atom", Lower(t.s), t)
      [] t.rule = "element" -> BuildArg("Element", "", t)
      [] t.rule = "residue" -> BuildArg("Residue", "", t)
      [] t.rule = "residue_number" ->
            SelectionNode("ResidueNumber", "", <<>>, <<build(t.kids[1])>>)
      [] t.rule = "index" -> SelectionNode("Index", "", t.v, <<>>)
      [] t.rule = "indices" -> BuildIndices(t.v)
      [] t.rule = "all" -> SelectionNode("All", "", <<>>, <<>>)
      [] t.rule = "and_statement" ->
            FoldLeft("And", [i \in 1..Len(t.kids) |-> build(t.kids[i])])
      [] t.rule = "without_statement" ->
            FoldLeft("Without", [i \in 1..Len(t.kids) |-> build(t.kids[i])])
      [] t.rule = "or_statement" ->
            SelectionNode("Or", "", <<>>, [i \in 1..Len(t.kids) |-> build(t.kids[i])])

(***************************************************************************)
(* The evaluator (specification, section 4.4).  An evaluation returns a    *)
(* set of atom indices or fails with OutOfRangeError.                      *)
(***************************************************************************)
Selected(S) == [ok |-> TRUE, set |-> S]
OutOfRangeError == [ok |-> FALSE, set |-> {}]

\* {s, s+step, ...} up to and including e; empty when s > e
RangeSet(s, e, step) == {x \in s..e : \E k \in 0..(e - s) : x = s + k * step}

SeqValues(v) == {v[i] : i \in 1..Len(v)}

\* Index(v): {v} if 0 <= v < atom_count, else OutOfRangeError
EvalIndex(v, T) ==
    IF 0 <= v /\ v < T.atom_count THEN Selected({v}) ELSE OutOfRangeError

\* a range evaluated without looking at the atom count
EvalIndexRangeUnchecked(s, e, step, T) == Selected(RangeSet(s, e, step))

\* IndexRange(s, e, step): an index outside the topology is out of range,
\* it is not clipped
EvalIndexRange(s, e, step, T) ==
    IF RangeSet(s, e, step) \subseteq AtomsOf(T)
    THEN Selected(RangeSet(s, e, step))
    ELSE OutOfRangeError

EvalAll(T) == Selected(AtomsOf(T))

\* AtomType(name): atoms whose name equals name, in any case
EvalAtomType(name, T) ==
    Selected({i \in AtomsOf(T) : Lower(T.atom_name[i]) = name})

\* Element: a symbol lookup (letters) or an atomic-number lookup (digits)
EvalElement(n, T) ==
    IF Len(n.kids) = 1
    THEN Selected({i \in AtomsOf(T) : Lower(T.atom_element[i]) = n.kids[1].name})
    ELSE Selected({i \in AtomsOf(T) :
                      AtomicNumber(T.atom_element[i]) \in SeqValues(n.ints)})

\* Residue(name): the atoms of the residues of that name
EvalResidue(n, T) ==
    IF Len(n.kids) = 1
    THEN Selected({i \in AtomsOf(T) :
                      Lower(residue_name(T.residue_of[i])) = n.kids[1].name})
    ELSE Selected({i \in AtomsOf(T) :
                      \E k \in 1..Len(n.ints) :
                          residue_name(T.residue_of[i]) = Numeral(n.ints[k])})

\* ResidueNumber(sel): sel gives residue ids, not atom indices
ResidueIds(sel) ==
    IF sel.kind = "Index" THEN {sel.ints[1]}
    ELSE RangeSet(sel.ints[1], sel.ints[2], sel.ints[3])

EvalResidueNumber(n, T) ==
    Selected({i \in AtomsOf(T) : T.residue_of[i] \in ResidueIds(n.kids[1])})

\* Atom(name, ids): atoms of that name whose id is one of ids
EvalAtom(n, T) ==
    Selected({i \in AtomsOf(T) :
                 /\ Lower(T.atom_name[i]) = n.name
                 /\ i \in SeqValues(n.ints)})

\* And(l, r): eval(l) /\ eval(r)
EvalAnd(l, r) ==
    IF l.ok /\ r.ok THEN Selected(l.set \cap r.set) ELSE OutOfRangeError

\* Without(l, r): eval(l) \ eval(r)
EvalWithout(l, r) ==
    IF l.ok /\ r.ok THEN Selected(l.set \ r.set) ELSE OutOfRangeError

\* Or(children): the union of the children's sets
EvalOr(rs) ==
    IF \A i \in 1..Len(rs) : rs[i].ok
    THEN Selected(UNION {rs[i].set : i \in 1..Len(rs)})
    ELSE OutOfRangeError

RECURSIVE evaluate(_, _)
evaluate(n, T) ==
    CASE n.kind = "AtomType" -> EvalAtomType(n.name, T)
      [] n.kind = "Atom" -> EvalAtom(n, T)
      [] n.kind = "Element" -> EvalElement(n, T)
      [] n.kind = "Residue" -> EvalResidue(n, T)
      [] n.kind = "ResidueNumber" -> EvalResidueNumber(n, T)
      [] n.kind = "Index" -> EvalIndex(n.ints[1], T)
      [] n.kind = "IndexRange" -> EvalIndexRange(n.ints[1], n.ints[2], n.ints[3], T)
      [] n.kind = "All" -> EvalAll(T)
      [] n.kind = "And" -> EvalAnd(evaluate(n.kids[1], T), evaluate(n.kids[2], T))
      [] n.kind = "Without" ->
            EvalWithout(evaluate(n.kids[1], T), evaluate(n.kids[2], T))
      [] n.kind = "Or" -> EvalOr([i \in 1..Len(n.kids) |-> evaluate(n.kids[i], T)])

(***************************************************************************)
(* Output ordering (specification, section 4.5): the selected indices as   *)
(* an ascending sequence.                                                  *)
(***************************************************************************)
RECURSIVE Descending(_)
\* the selected indices from the largest down
Descending(S) ==
    IF S = {} THEN <<>>
    ELSE LET m == CHOOSE x \in S : \A y \in S : y <= x
         IN <<m>> \o Descending(S \ {m})

RECURSIVE Ascending(_)
Ascending(S) ==
    IF S = {} THEN <<>>
    ELSE LET m == CHOOSE x \in S : \A y \in S : x <= y
         IN <<m>> \o Ascending(S \ {m})

(***************************************************************************)
(* The selection texts of the model.                                       *)
(***************************************************************************)
Ints == -1..MaxInt
Steps == 1..MaxInt

\* a single index
IndexTexts == {<<I(v)>> : v \in Ints}

\* the two-integer range forms s-e and s..e
RangeTexts == {<<I(a), L(sep), I(b)>> : a \in Ints, b \in Ints, sep \in {"-", ".."}}

\* the three-integer range forms a-b..c and a..b..c
StepTexts ==
    {<<I(a), L(sep), I(b), L(".."), I(c)>> :
        a \in Ints, b \in Steps, c \in Ints, sep \in {"-", ".."}}

\* selectors by name, element, residue and residue number
NameTexts ==
    {<<L(w)>> : w \in {"H", "h", "C", "O", "Xx", "C1", "all", "ALL", "*"}}
    \cup {<<L(kw), L(x), L(")")>> :
            kw \in {"elem(", "ELEM(", "res(", "Res("},
            x \in {"H", "h", "C", "O", "Xx", "WAT", "wat", "MOL"}}
    \cup {<<L(kw), I(z), L(")")>> : kw \in {"elem(", "res("}, z \in {1, 2, 6}}
    \cup {<<L("elem("), I(1), I(6), L(")")>>}
    \cup {<<L(kw), I(r)>> : kw \in {"res~", "RES~"}, r \in Ints}
    \cup {<<L("res~"), I(a), L(sep), I(b)>> :
            a \in 0..3, b \in 0..3, sep \in {"-", ".."}}
    \cup {<<L("atom("), L(w), L(","), I(i), L(")")>> :
            w \in {"C", "Xx"}, i \in 0..3}
    \cup {<<L("atom("), L("C"), L(","), I(2), I(3), L(")")>>,
          <<L("Atom("), L("H"), L(","), L("H"), L(")")>>,
          <<L("atom("), L("C"), L(","), L("H"), L(")"), L("&"), L("C")>>,
          <<L("Atom("), L("C"), L(","), I(2), L(")")>>,
          <<L("ATOM("), L("C1"), L(","), I(0), I(1), I(2), L(")")>>}

\* the operands and operators of the combined texts
OperandTokens == {L("H"), L("C"), L("all"), I(1)}
OperatorTokens == {L(AndToken), L(WithoutToken), L(OrToken)}

TwoOperandTexts ==
    {<<a, o, b>> : a \in OperandTokens, o \in OperatorTokens, b \in OperandTokens}
    \cup {<<L("all"), L("|"), L("elem("), L("H"), L(")")>>,
          <<L("elem("), L("H"), L(")"), L("&"), I(0), L("-"), I(1)>>,
          <<L("elem("), L("Xx"), L(")"), L("&"), I(1)>>}

ThreeOperandTexts ==
    {<<a, o, b, q, c>> :
        a \in OperandTokens, o \in OperatorTokens, b \in OperandTokens,
        q \in OperatorTokens, c \in OperandTokens}
    \cup {<<I(3), L(","), I(1), L(","), I(1), L("-"), I(3)>>}

ParenthesisedTexts ==
    {<<L("("), a, o, b, L(")"), q, c>> :
        a \in OperandTokens, o \in OperatorTokens, b \in OperandTokens,
        q \in OperatorTokens, c \in OperandTokens}
    \cup {<<a, o, L("("), b, q, c, L(")")>> :
        a \in OperandTokens, o \in OperatorTokens, b \in OperandTokens,
        q \in OperatorTokens, c \in OperandTokens}

\* ((a & b) | c)
GroupedTexts ==
    {<<L("("), L("("), a, L("&"), b, L(")"), L("|"), c, L(")")>> :
        a \in OperandTokens, b \in OperandTokens, c \in OperandTokens}

\* a & b | c, d
FourOperandTexts ==
    {<<a, L("&"), b, L("|"), c, L(","), d>> :
        a \in OperandTokens, b \in OperandTokens,
        c \in OperandTokens, d \in OperandTokens}

\* texts the grammar does not derive, and texts ending in newlines
OtherTexts ==
    {<<L("("), L("H")>>, <<L("H"), L(")")>>, <<L("H"), L("&")>>,
     <<L("elem("), L(")")>>, <<L("elem("), I(-1), L(")")>>,
     <<L("atom("), L("C"), L(")")>>, <<I(1), L("-"), I(2), I(3)>>,
     <<L("atom("), L("C"), L(","), L(")")>>,
     <<L("atom("), L("C"), L(","), I(-1), L(")")>>,
     <<L("atom("), L("C"), L(","), I(1), L("H"), L(")")>>,
     <<L("?")>>, <<>>,
     <<L("H"), L("NL")>>, <<L("H"), L("NL"), L("NL")>>,
     <<I(1), L("-"), I(2), L("NL"), I(0), L("-"), I(1), L("NL")>>,
     <<L("elem("), L("H"), L(")"), L("NL"), L("("), L("C"), L(")"), L("NL")>>}

Texts ==
    IndexTexts \cup RangeTexts \cup StepTexts \cup NameTexts
    \cup TwoOperandTexts \cup ThreeOperandTexts \cup ParenthesisedTexts
    \cup GroupedTexts \cup FourOperandTexts \cup OtherTexts

(***************************************************************************)
(* The selection of a text on a topology, step by step.                    *)
(***************************************************************************)
NoTree == Tree("none", "", <<>>, <<>>)
NoNode == SelectionNode("none", "", <<>>, <<>>)

Init ==
    /\ text \in Texts
    /\ topo \in Topologies
    /\ pc = "text"
    /\ tree = NoTree
    /\ node = NoNode
    /\ res = {}
    /\ out = <<>>
    /\ err = "none"
    /\ pos = 0

\* the parser returns one of the trees the grammar derives for the text;
\* the grammar does not say which one when there are several
Parse ==
    /\ pc = "text"
    /\ \E t \in expression(text) : tree' = t
    /\ pc' = "parsed"
    /\ UNCHANGED <<text, topo, node, res, out, err, pos>>

\* a text the grammar does not derive is a syntax error
ParseError ==
    /\ pc = "text"
    /\ expression(text) = {}
    /\ pc' = "failed"
    /\ err' = "SyntaxError"
    /\ pos' = ErrorPosition(text)
    /\ UNCHANGED <<text, topo, tree, node, res, out>>

Build ==
    /\ pc = "parsed"
    /\ Buildable(tree)
    /\ node' = build(tree)
    /\ pc' = "built"
    /\ UNCHANGED <<text, topo, tree, res, out, err, pos>>

\* a tree the builder does not accept is a structural error
BuildError ==
    /\ pc = "parsed"
    /\ ~Buildable(tree)
    /\ pc' = "failed"
    /\ err' = "BuildError"
    /\ UNCHANGED <<text, topo, tree, node, res, out, pos>>

Evaluate ==
    /\ pc = "built"
    /\ evaluate(node, topo).ok
    /\ res' = evaluate(node, topo).set
    /\ pc' = "evaluated"
    /\ UNCHANGED <<text, topo, tree, node, out, err, pos>>

EvaluateError ==
    /\ pc = "built"
    /\ ~evaluate(node, topo).ok
    /\ pc' = "failed"
    /\ err' = "OutOfRangeError"
    /\ UNCHANGED <<text, topo, tree, node, res, out, pos>>

\* Selection.select returns the selected indices in ascending order
Select ==
    /\ pc = "evaluated"
    /\ out' = Ascending(res)
    /\ pc' = "done"
    /\ UNCHANGED <<text, topo, tree, node, res, err, pos>>

Next ==
    \/ Parse
    \/ ParseError
    \/ Build
    \/ BuildError
    \/ Evaluate
    \/ EvaluateError
    \/ Select

Spec == Init /\ [][Next]_vars

(***************************************************************************)
(* Properties.                                                             *)
(***************************************************************************)
\* the evaluation has returned a set
Returned == pc \in {"evaluated", "done"}

\* the results the trees of a text evaluate to on a topology
ResultsOf(ts, T) == {evaluate(build(t), T) : t \in expression(ts)}

\* the set a one-token operand selects on a topology
OperandSet(tok, T) == (CHOOSE r \in ResultsOf(<<tok>>, T) : TRUE).set

\* C1: evaluating And(A, B) returns exactly the intersection of the result
\* of A and the result of B, for every And node the parser and builder
\* produce, and "A & B" is such a node.
C1_AndIsIntersection ==
    Returned =>
        /\ node.kind = "And" =>
              res = evaluate(node.kids[1], topo).set
                    \cap evaluate(node.kids[2], topo).set
        /\ Len(text) = 3 /\ text[2] = L("&") =>
              /\ node.kind = "And"
              /\ res = OperandSet(text[1], topo) \cap OperandSet(text[3], topo)

\* "H & 1" on a topology of at least two atoms selects {1}
C1_Witness ==
    /\ pc = "done"
    /\ text = <<L("H"), L("&"), I(1)>>
    /\ node.kind = "And"
    /\ out = <<1>>

\* C2: evaluating Without(A, B), written "A | B", returns the atoms selected
\* by A that are not selected by B; "all | elem(H)" on the atoms H H C C O
\* gives [2, 3, 4].
C2_WithoutIsDifference ==
    Returned =>
        /\ node.kind = "Without" =>
              res = evaluate(node.kids[1], topo).set
                    \ evaluate(node.kids[2], topo).set
        /\ Len(text) = 3 /\ text[2] = L("|") =>
              /\ node.kind = "Without"
              /\ res = OperandSet(text[1], topo) \ OperandSet(text[3], topo)
        /\ ( /\ text = <<L("all"), L("|"), L("elem("), L("H"), L(")")>>
             /\ topo = Topology(5)
             /\ pc = "done" ) => out = <<2, 3, 4>>

C2_Witness ==
    /\ pc = "done"
    /\ text = <<L("all"), L("|"), L("elem("), L("H"), L(")")>>
    /\ topo = Topology(5)
    /\ node.kind = "Without"
    /\ out = <<2, 3, 4>>

\* the texts that list three operands with "," in any order and grouping
Reorderings(a, b, c) ==
    LET perms == {<<a, b, c>>, <<a, c, b>>, <<b, a, c>>,
                  <<b, c, a>>, <<c, a, b>>, <<c, b, a>>}
    IN {<<p[1], L(","), p[2], L(","), p[3]>> : p \in perms}
       \cup {<<L("("), p[1], L(","), p[2], L(")"), L(","), p[3]>> : p \in perms}
       \cup {<<p[1], L(","), L("("), p[2], L(","), p[3], L(")")>> : p \in perms}

\* C3: evaluating Or(children), written "A, B, ...", returns the union of
\* the children's results, and every permutation and every re-association
\* of the children gives the same result.
C3_OrIsUnion ==
    Returned =>
        /\ node.kind = "Or" =>
              res = UNION {evaluate(node.kids[i], topo).set :
                              i \in 1..Len(node.kids)}
        /\ Len(text) = 3 /\ text[2] = L(",") =>
              /\ node.kind = "Or"
              /\ res = OperandSet(text[1], topo) \cup OperandSet(text[3], topo)
        /\ Len(text) = 5 /\ text[2] = L(",") /\ text[4] = L(",") =>
              /\ res = OperandSet(text[1], topo) \cup OperandSet(text[3], topo)
                       \cup OperandSet(text[5], topo)
              /\ \A ts \in Reorderings(text[1], text[3], text[5]) :
                    ResultsOf(ts, topo) = {Selected(res)}

\* "H, 1, C" read as the nested tree Or[Or[H, 1], C]
C3_Witness ==
    /\ pc = "done"
    /\ text = <<L("C"), L(","), I(1), L(","), L("H")>>
    /\ Len(node.kids) = 2
    /\ node.kids[1].kind = "Or"
    /\ topo = Topology(5)
    /\ out = <<0, 1, 2, 3>>

\* C4: the sequence returned to the caller is strictly ascending, free of
\* duplicates and holds exactly the selected indices, whatever the order of
\* the clauses: "3, 1, 1-3" and "1-3" return the same sequence.
C4_AscendingOutput ==
    pc = "done" =>
        /\ \A i \in 1..Len(out) : \A j \in 1..Len(out) : i < j => out[i] < out[j]
        /\ {out[i] : i \in 1..Len(out)} = res
        /\ text \in {<<I(3), L(","), I(1), L(","), I(1), L("-"), I(3)>>,
                     <<I(1), L("-"), I(3)>>} => out = <<1, 2, 3>>

C4_Witness ==
    /\ pc = "done"
    /\ text = <<I(3), L(","), I(1), L(","), I(1), L("-"), I(3)>>
    /\ out = <<1, 2, 3>>

\* C5: Index(v) on a topology of n atoms returns {v} when 0 <= v < n and
\* fails with OutOfRangeError otherwise, for v >= n and for negative v;
\* it is never clipped or wrapped.
C5_IndexInRangeOrError ==
    Len(text) = 1 /\ text[1].k = "int" =>
        LET v == text[1].v
            inside == 0 <= v /\ v < topo.atom_count
        IN /\ pc = "built" => node = SelectionNode("Index", "", <<v>>, <<>>)
           /\ Returned => inside /\ res = {v}
           /\ pc = "failed" => ~inside /\ err = "OutOfRangeError"

\* the index -1 is parsed and fails at evaluation
C5_Witness ==
    /\ text = <<I(-1)>>
    /\ topo = Topology(5)
    /\ pc = "failed"
    /\ err = "OutOfRangeError"

\* C6: the two-integer range s-e or s..e evaluates to {s, ..., e} when
\* s <= e and lies in the topology, and to the empty set when s > e; a
\* range is never reversed.
C6_RangeInclusiveNoReverse ==
    Len(text) = 3 /\ text[1].k = "int" /\ text[2] \in {L("-"), L("..")} =>
        LET s == text[1].v
            e == text[3].v
        IN /\ Returned => res = {x \in Ints : s <= x /\ x <= e}
           /\ s > e => pc # "failed" /\ (Returned => res = {})
           /\ 0 <= s /\ s <= e /\ e < topo.atom_count => pc # "failed"
           /\ pc = "failed" => err = "OutOfRangeError"
           /\ ( /\ text = <<I(2), L(".."), I(5)>>
                /\ pc = "done" ) => out = <<2, 3, 4, 5>>

\* "3-1" selects nothing
C6_Witness ==
    /\ text = <<I(3), L("-"), I(1)>>
    /\ topo = Topology(5)
    /\ pc = "done"
    /\ out = <<>>

IsIndicesText ==
    /\ Len(text) \in {3, 5}
    /\ text[1].k = "int"
    /\ text[2] \in {L("-"), L("..")}
    /\ Len(text) = 5 => text[4] = L("..")

NamesIn(T) ==
    IF Len(text) = 1 THEN {Lower(T.atom_name[i]) : i \in AtomsOf(T)}
    ELSE IF Lower(text[1].s) = "elem("
         THEN {Lower(T.atom_element[i]) : i \in AtomsOf(T)}
         ELSE {Lower(residue_name(T.residue_of[i])) : i \in AtomsOf(T)}

\* the text is a selector by atom type, by element or by residue name
IsNameText ==
    \/ /\ Len(text) = 1
       /\ text[1].k = "lit"
       /\ text[1].s \in {"H", "h", "C", "O", "Xx", "C1", "ALL"}
    \/ /\ Len(text) = 3
       /\ text[1].k = "lit"
       /\ Lower(text[1].s) \in {"elem(", "res("}
       /\ text[2].k = "lit"

\* C9: a selector by name (atom type, element, residue name) whose name
\* matches nothing in the topology returns the empty set and never fails;
\* "elem(Xx)" returns {}.
C9_UnknownNameIsEmpty ==
    IsNameText =>
        LET name == Lower(text[IF Len(text) = 3 THEN 2 ELSE 1].s)
        IN /\ pc # "failed"
           /\ Returned /\ name \notin NamesIn(topo) => res = {}

C9_Witness ==
    /\ text = <<L("elem("), L("Xx"), L(")")>>
    /\ topo = Topology(5)
    /\ pc = "done"
    /\ node.kind = "Element"
    /\ out = <<>>

\* the three spellings of C11 for the operands a, b, c
Default(a, b, c) == <<a, L("&"), b, L("|"), c>>
Restated(a, b, c) ==
    <<L("("), L("("), a, L("&"), b, L(")"), L("|"), c, L(")")>>
RightGrouped(a, b, c) == <<a, L("&"), L("("), b, L("|"), c, L(")")>>

\* C11: parentheses are kept as written and agree with the default
\* grouping where they restate it: "a & b | c" and "((a & b) | c)" give
\* the same result on every topology, the set (A \cap B) \ C, whichever
\* tree the parser returns, and "a & (b | c)" gives A \cap (B \ C); the
\* node of "((a & b) | c)" is Without(And(a, b), c) and the node of
\* "a & (b | c)" is And(a, Without(b, c)).
C11_ParenthesesRespected ==
    /\ Len(text) = 5 /\ text[2] = L("&") /\ text[4] = L("|") =>
          LET A == OperandSet(text[1], topo)
              B == OperandSet(text[3], topo)
              C == OperandSet(text[5], topo)
              restated == Restated(text[1], text[3], text[5])
              right == RightGrouped(text[1], text[3], text[5])
          IN /\ Cardinality(ResultsOf(text, topo)) = 1
             /\ ResultsOf(restated, topo) = ResultsOf(text, topo)
             /\ Returned =>
                   /\ res = (A \cap B) \ C
                   /\ ResultsOf(right, topo) = {Selected(A \cap (B \ C))}
    /\ text \in GroupedTexts /\ pc \in {"built", "evaluated", "done"} =>
          /\ node.kind = "Without"
          /\ node.kids[1].kind = "And"
          /\ node.kids[1].kids[1] = build(CHOOSE t \in statement(<<text[3]>>) : TRUE)
          /\ node.kids[1].kids[2] = build(CHOOSE t \in statement(<<text[5]>>) : TRUE)
          /\ node.kids[2] = build(CHOOSE t \in statement(<<text[8]>>) : TRUE)
          /\ Returned =>
                res = (OperandSet(text[3], topo) \cap OperandSet(text[5], topo))
                      \ OperandSet(text[8], topo)
    /\ ( /\ Len(text) = 7
         /\ text[2] = L("&") /\ text[3] = L("(") /\ text[5] = L("|")
         /\ pc \in {"built", "evaluated", "done"} ) =>
          /\ node.kind = "And"
          /\ node.kids[2].kind = "Without"
          /\ node.kids[1] = build(CHOOSE t \in statement(<<text[1]>>) : TRUE)
          /\ Returned =>
                res = OperandSet(text[1], topo)
                      \cap (OperandSet(text[4], topo) \ OperandSet(text[6], topo))

\* "all & H | 1" read as And(all, Without(H, 1)) selects atom 0, as
\* "((all & H) | 1)" does
C11_Witness ==
    /\ pc = "done"
    /\ text = Default(L("all"), L("H"), I(1))
    /\ topo = Topology(5)
    /\ node.kind = "And"
    /\ node.kids[2].kind = "Without"
    /\ out = <<0>>
    /\ ResultsOf(Restated(L("all"), L("H"), I(1)), topo) = {Selected({0})}

\* the lower-case spellings of the grammar's keywords
Keywords == {"atom(", "elem(", "res(", "res~", "all"}

\* a token that spells a keyword in some mix of upper and lower case
SpellsKeyword(tok) == tok.k = "lit" /\ Lower(tok.s) \in Keywords

\* the text with every keyword spelled in lower case
LowerCased(ts) ==
    [i \in 1..Len(ts) |-> IF SpellsKeyword(ts[i]) THEN L(Lower(ts[i].s)) ELSE ts[i]]

\* C12: every keyword (atom(, elem(, res(, res~, all) is recognised in any
\* mix of upper and lower case: the text parses to the selector variant
\* its lower-case spelling parses to and evaluates to the same set; and
\* "*" evaluates as "all" does.
C12_KeywordsAnyCase ==
    /\ ( /\ Len(text) >= 1
         /\ SpellsKeyword(text[1])
         /\ pc \in {"built", "evaluated", "done"} ) =>
          /\ node.kind \in {build(t).kind : t \in expression(LowerCased(text))}
          /\ Returned => Selected(res) \in ResultsOf(LowerCased(text), topo)
    /\ text = <<L("*")>> /\ pc \in {"built", "evaluated", "done"} =>
          /\ node.kind = "All"
          /\ Returned => Selected(res) \in ResultsOf(<<L("all")>>, topo)

\* the text ends with a newline
Terminated(ts) == Len(ts) > 0 /\ IsNewline(ts[Len(ts)])

\* the logical lines of a text that ends with a newline
RECURSIVE LinesOf(_)
LinesOf(ts) ==
    IF ts = <<>> THEN <<>>
    ELSE LET p == CHOOSE q \in 1..Len(ts) :
                     IsNewline(ts[q]) /\ \A r \in 1..(q - 1) : ~IsNewline(ts[r])
         IN <<SubSeq(ts, 1, p - 1)>> \o LinesOf(SubSeq(ts, p + 1, Len(ts)))

\* C13: a text of one or more lines, each ended by a newline and each a
\* valid expression on its own, is accepted: it is never a syntax error.
C13_SeveralLinesAccepted ==
    ( /\ Terminated(text)
      /\ \A i \in 1..Len(LinesOf(text)) : expression(LinesOf(text)[i]) # {} ) =>
        ~(pc = "failed" /\ err = "SyntaxError")

\* the malformed texts C14 names, each with the position of its error:
\* unmatched parentheses, an unknown token, malformed argument lists of
\* atom( and elem(, and trailing tokens after a valid expression
Malformed ==
    {<<<<L("("), L("H")>>, 3>>,
     <<<<L("H"), L(")")>>, 2>>,
     <<<<L("?")>>, 1>>,
     <<<<L("elem("), L(")")>>, 2>>,
     <<<<L("elem("), I(-1), L(")")>>, 2>>,
     <<<<L("atom("), L("C"), L(")")>>, 3>>,
     <<<<I(1), L("-"), I(2), I(3)>>, 4>>,
     <<<<L("H"), L("&")>>, 3>>}

\* C14: a text that does not reduce to expression ends in a syntax error
\* and yields no tree (nothing is built or evaluated), and only such a
\* text does; the error carries the position of the offending token: the
\* tokens before it begin a derivable text, the tokens up to it do not.
C14_SyntaxErrorNoTree ==
    /\ pc = "failed" /\ err = "SyntaxError" =>
          /\ expression(text) = {}
          /\ tree = NoTree /\ node = NoNode /\ res = {} /\ out = <<>>
          /\ pos \in 1..(Len(text) + 1)
          /\ \A j \in 0..(pos - 1) : ViablePrefix(SubSeq(text, 1, j))
          /\ pos <= Len(text) => ~ViablePrefix(SubSeq(text, 1, pos))
    /\ pc = "parsed" => tree \in expression(text)
    /\ pc \notin {"text", "failed"} \/ err = "OutOfRangeError" =>
          tree # NoTree /\ pos = 0
    /\ \A m \in Malformed :
          text = m[1] =>
              /\ pc \in {"text", "failed"}
              /\ pc = "failed" => err = "SyntaxError" /\ pos = m[2]

\* "atom(C)" has no id list: the error is at the closing parenthesis
C14_Witness ==
    /\ text = <<L("atom("), L("C"), L(")")>>
    /\ pc = "failed"
    /\ err = "SyntaxError"
    /\ pos = 3
    /\ tree = NoTree

\* the atoms of the residue numbered r in a topology
ResidueAtoms(r, T) == {i \in AtomsOf(T) : T.residue_of[i] = r}

\* C15: "res~i" and "res~i-j" take their integers as residue numbers, not
\* as atom indices: the result is the union of the atoms of exactly those
\* residues, a number that is no residue of the topology adds nothing and
\* is no error; with residues {1: [0,1,2], 2: [3,4]}, "res~1" gives
\* [0, 1, 2].
C15_ResidueNumberIsResidueId ==
    Len(text) \in {2, 4} /\ MatchesNoCase(text[1], "res~") =>
        LET ids == IF Len(text) = 2 THEN {text[2].v}
                   ELSE {r \in Ints : text[2].v <= r /\ r <= text[4].v}
        IN /\ pc # "failed"
           /\ pc \in {"built", "evaluated", "done"} =>
                 /\ node.kind = "ResidueNumber"
                 /\ node.kids[1].kind = IF Len(text) = 2 THEN "Index" ELSE "IndexRange"
           /\ Returned => res = UNION {ResidueAtoms(r, topo) : r \in ids}
           /\ pc = "done" /\ Len(text) = 2 /\ text[2].v = 1 /\ topo = Topology(5) =>
                 out = <<0, 1, 2>>

\* "res~2-3" on seven atoms selects the atoms 3 to 6 of residues 2 and 3
C15_Witness ==
    /\ text = <<L("res~"), I(2), L("-"), I(3)>>
    /\ topo = Topology(7)
    /\ pc = "done"
    /\ node.kind = "ResidueNumber"
    /\ out = <<3, 4, 5, 6>>

\* a node and the nodes below it that are evaluated: the operands of the
\* combinators
RECURSIVE EvaluatedNodes(_)
EvaluatedNodes(n) ==
    {n} \cup (IF n.kind \in {"And", "Without", "Or"}
              THEN UNION {EvaluatedNodes(n.kids[i]) : i \in 1..Len(n.kids)}
              ELSE {})

\* C16: on a topology of n atoms every evaluation that returns, of the
\* root and of every operand below it (ranges that end at or beyond n and
\* combinators included), returns a subset of {0, ..., n-1}, so at most n
\* indices; no index outside that interval is ever returned.
C16_ResultWithinTopology ==
    /\ pc \in {"built", "evaluated", "done"} =>
          \A m \in EvaluatedNodes(node) :
              evaluate(m, topo).ok =>
                  /\ evaluate(m, topo).set \subseteq 0..(topo.atom_count - 1)
                  /\ Cardinality(evaluate(m, topo).set) <= topo.atom_count
    /\ Returned =>
          /\ res \subseteq 0..(topo.atom_count - 1)
          /\ Cardinality(res) <= topo.atom_count
    /\ pc = "done" =>
          \A i \in 1..Len(out) : 0 <= out[i] /\ out[i] < topo.atom_count

\* "1, all" on seven atoms returns all seven indices and no more
C16_Witness ==
    /\ text = <<I(1), L(","), L("all")>>
    /\ topo = Topology(7)
    /\ pc = "done"
    /\ node.kind = "Or"
    /\ out = <<0, 1, 2, 3, 4, 5, 6>>

\* the text is one atom( selector, well formed or not
IsAtomText ==
    /\ Len(text) >= 1
    /\ MatchesNoCase(text[1], "atom(")
    /\ \A i \in 1..Len(text) : text[i] \notin {L(AndToken), L(WithoutToken)}

\* the tokens between "atom(" name "," and ")"
IdTokens ==
    IF Len(text) >= 5 /\ text[3] = L(",") /\ text[Len(text)] = L(")")
    THEN SubSeq(text, 4, Len(text) - 1)
    ELSE <<>>

IsCombinedText ==
    /\ Len(text) >= 3
    /\ \A i \in 1..Len(text) :
          text[i] \in OperandTokens \cup OperatorTokens \cup {L("("), L(")")}

\* the operands of a combined text that are out of range on a topology
FailingOperands(T) ==
    {i \in 1..Len(text) :
        /\ text[i] \in OperandTokens
        /\ ResultsOf(<<text[i]>>, T) = {OutOfRangeError}}

\* C19: an OutOfRangeError of any operand ends the whole evaluation: when
\* an operand below And, Without and Or is out of range the root raises
\* OutOfRangeError and no set is returned, also when the set algebra would
\* not need the operand ("all | 1" and "elem(Xx) & 1" on one atom); the
\* tree is still a tree of the text, the node its build and the topology
\* as it was.
C19_OutOfRangeIsTerminal ==
    /\ pc \in {"built", "evaluated", "done"} \/ err = "OutOfRangeError" =>
          LET failing == \E m \in EvaluatedNodes(node) : ~evaluate(m, topo).ok
          IN /\ failing => pc \in {"built", "failed"}
             /\ failing /\ pc = "failed" =>
                   /\ err = "OutOfRangeError"
                   /\ res = {} /\ out = <<>>
                   /\ tree \in expression(text)
                   /\ node = build(tree)
                   /\ topo = Topology(topo.atom_count)
             /\ pc = "failed" => failing
    /\ IsCombinedText /\ FailingOperands(topo) # {} =>
          /\ ~Returned
          /\ pc = "failed" => err = "OutOfRangeError"
    /\ ( /\ text = <<L("elem("), L("Xx"), L(")"), L("&"), I(1)>>
         /\ topo.atom_count <= 1 ) => ~Returned

\* "all | 1" on one atom fails although {0} \ {1} would be {0}
C19_Witness ==
    /\ text = <<L("all"), L("|"), I(1)>>
    /\ topo = Topology(1)
    /\ pc = "failed"
    /\ err = "OutOfRangeError"
    /\ node.kind = "Without"
    /\ evaluate(node.kids[1], topo) = Selected({0})
    /\ res = {}

====
